---- MODULE Spec2Model ----
(***************************************************************************)
(* Model of the two price-provider clients, BirdEyeClient (birdeye.py) and *)
(* DexScreenerClient (dexscreener.py), and of the pool selector            *)
(* DexScreenerClient.find_largest_pool_with_sol.                           *)
(*                                                                         *)
(* A public operation is one behaviour of Spec: the call runs the input    *)
(* checks up to its first HTTP request, every HTTP request is a step of    *)
(* its own (the request is recorded in calls, the upstream picks the       *)
(* response), and the handling of a response runs up to the next request   *)
(* or to the return / raise of the operation.                              *)
(* SpecSel applies the pool selector, a pure function, to bounded inputs.  *)
(***************************************************************************)
EXTENDS Integers, Sequences, FiniteSets, TLC

VARIABLES
    op,                 \* the public operation in progress
    token_addresses,    \* argument of the price fetches
    address,            \* argument of the overview fetches
    pc,                 \* "idle", "http" (a request is in flight), "done"
    calls,              \* every HTTP request issued so far, in order
    api_response,       \* the last HTTP response received
    idx,                \* fetch_prices_dex: position of the address being fetched
    prices,             \* fetch_prices_dex: the local dict prices
    invalid_token_list, \* fetch_prices_dex: the local list invalid_token_list
    outcome,            \* what the operation returned or raised
    sel_pairs,          \* selector: argument token_pairs
    sel_address,        \* selector: argument address
    sel_pc,             \* selector: "input", "returned"
    max_entry           \* selector: the returned entry, as its position (0: {})

vars == <<op, token_addresses, address, pc, calls, api_response, idx, prices,
          invalid_token_list, outcome, sel_pairs, sel_address, sel_pc, max_entry>>

clientVars == <<op, token_addresses, address, pc, calls, api_response, idx, prices,
                invalid_token_list, outcome>>

selVars == <<sel_pairs, sel_address, sel_pc, max_entry>>

(***************************************************************************)
(* Bounds of the model.                                                    *)
(***************************************************************************)
MaxAddrs == 2      \* longest token_addresses list
MaxRespPairs == 2  \* longest pairs array of a DexScreener response
MaxData == 2       \* most records in the data object of a BirdEye response
MaxPairs == 3      \* longest token_pairs list handed to the selector

(***************************************************************************)
(* Numbers.  A JSON number n is the pair <<h, l>> with n = h * 2^53 + l,   *)
(* h in {0, 1} and l small, so that integers beyond the 53-bit mantissa of *)
(* a Python float are in the model.                                        *)
(***************************************************************************)
Num(h, l) == <<h, l>>

Zero == Num(0, 0)

NumGreater(a, b) == a[1] > b[1] \/ (a[1] = b[1] /\ a[2] > b[2])

\* Decimal(n) of a JSON number is exact (arbitrary precision).
Decimal(n) == n

\* Python truth value of a Decimal
DecimalTruthy(n) == n # Zero

\* float(n): exact below 2^53; in [2^53, 2^54) floats are 2 apart and the
\* conversion rounds to nearest, ties to the even mantissa.
float(n) ==
    IF n[1] = 0 THEN n
    ELSE IF n[2] % 2 = 0 THEN n
    ELSE IF ((n[2] - 1) \div 2) % 2 = 0 THEN Num(n[1], n[2] - 1)
    ELSE Num(n[1], n[2] + 1)

(***************************************************************************)
(* Addresses.                                                              *)
(***************************************************************************)
SOL_MINT == "SOL_MINT"

USDC_MINT == "USDC_MINT"

EmptyAddress == ""

ValidAddrs == {"T1", "T2"}

Addrs == ValidAddrs \cup {"BAD"}

\* helpers.is_solana_address: the external validity predicate
is_solana_address(a) == a \in ValidAddrs

\* Python truth value of a str / list
StrTruthy(s) == s # EmptyAddress

ListTruthy(l) == Len(l) > 0

RECURSIVE SeqsUpTo(_, _)
SeqsUpTo(S, n) ==
    IF n = 0 THEN {<<>>}
    ELSE LET shorter == SeqsUpTo(S, n - 1)
         IN  shorter \cup {Append(s, x) : s \in {t \in shorter : Len(t) = n - 1}, x \in S}

(***************************************************************************)
(* DexScreener pair records.                                               *)
(***************************************************************************)
\* entry["liquidity"]: no such key, {} or {"usd": n}
NoLiquidityKey == [key |-> FALSE, usd_key |-> FALSE, usd |-> Zero]

LiquidityNoUsd == [key |-> TRUE, usd_key |-> FALSE, usd |-> Zero]

LiquidityUsd(n) == [key |-> TRUE, usd_key |-> TRUE, usd |-> n]

PriceUsd == Num(0, 3)

Pair(base, quote, liq) ==
    [baseToken |-> base, quoteToken |-> quote, liquidity |-> liq, priceUsd |-> PriceUsd]

\* entry.get("liquidity", {}).get("usd", 0)
EntryLiquidityUsd(entry) ==
    IF entry.liquidity.key /\ entry.liquidity.usd_key THEN entry.liquidity.usd ELSE Zero

(***************************************************************************)
(* DexScreenerClient.find_largest_pool_with_sol                            *)
(***************************************************************************)
MinusOne == Num(0, -1)

\* line 193 without its quoteToken test
MatchesPoolBaseOnly(entry, addr) == entry.baseToken = addr

\* the condition of the if of line 193
MatchesPool(entry, addr) == entry.baseToken = addr /\ entry.quoteToken = SOL_MINT

\* line 195 with >= in place of >
ReplacesOnTie(liquidity_usd, max_liquidity_usd) ==
    ~NumGreater(max_liquidity_usd, liquidity_usd)

\* the condition of the if of line 195
Replaces(liquidity_usd, max_liquidity_usd) == NumGreater(liquidity_usd, max_liquidity_usd)

\* lines 189-190
SelStart == [max_entry |-> 0, max_liquidity_usd |-> MinusOne]

\* one iteration of the for loop, on the entry at position k
SelIter(st, token_pairs, k, addr) ==
    IF MatchesPool(token_pairs[k], addr)
    THEN LET liquidity_usd == float(EntryLiquidityUsd(token_pairs[k]))
         IN  IF Replaces(liquidity_usd, st.max_liquidity_usd)
             THEN [max_entry |-> k, max_liquidity_usd |-> liquidity_usd]
             ELSE st
    ELSE st

\* the for loop over the first n entries
RECURSIVE SelLoop(_, _, _)
SelLoop(token_pairs, addr, n) ==
    IF n = 0 THEN SelStart
    ELSE SelIter(SelLoop(token_pairs, addr, n - 1), token_pairs, n, addr)

\* the position of the returned entry in token_pairs, 0 when {} is returned
find_largest_pool_with_sol(token_pairs, addr) ==
    SelLoop(token_pairs, addr, Len(token_pairs)).max_entry

(***************************************************************************)
(* Outcomes of an operation and HTTP exchanges.                            *)
(***************************************************************************)
HTTP_OK == 200

\* a status other than 200
HTTP_ERROR == HTTP_OK + 300

NoResponse == [status |-> 0, data |-> <<>>, has_pairs |-> FALSE, pairs |-> <<>>]

NoOutcome == [kind |-> "none", tokens |-> <<>>, address |-> "", prices |-> <<>>,
              price |-> Zero, has_liquidity |-> FALSE, liquidity |-> Zero]

\* raise NoPositionsError()
NoPositionsError == [NoOutcome EXCEPT !.kind = "NoPositionsError"]

\* raise InvalidSolanaAddress(a)
InvalidSolanaAddress(a) == [NoOutcome EXCEPT !.kind = "InvalidSolanaAddress", !.address = a]

\* raise InvalidTokens(tokens); InvalidTokens() carries no token
InvalidTokens(tokens) == [NoOutcome EXCEPT !.kind = "InvalidTokens", !.tokens = tokens]

\* raise ValueError(NO_LIQUDITY)
NoLiquidity == [NoOutcome EXCEPT !.kind = "ValueError(NO_LIQUDITY)"]

\* raise TransactionNotFoundError()
TransactionNotFoundError == [NoOutcome EXCEPT !.kind = "TransactionNotFoundError"]

\* return of a price fetch: a dict address -> PriceInfo
ReturnPrices(p) == [NoOutcome EXCEPT !.kind = "prices", !.prices = p]

\* return TokenOverview(price=..., liquidity=..., ...)
ReturnOverview(price, liquidity) ==
    [NoOutcome EXCEPT !.kind = "TokenOverview", !.price = price,
                      !.has_liquidity = TRUE, !.liquidity = liquidity]

\* PriceInfo(price, liquidity); liquidity None is has_liquidity = FALSE
PriceInfo(price, has_liquidity, liquidity) ==
    [price |-> price, has_liquidity |-> has_liquidity, liquidity |-> liquidity]

\* requests.get(request_url): the request names the provider and the addresses
Request(provider, list_address) == [provider |-> provider, list_address |-> list_address]

(***************************************************************************)
(* BirdEye responses: data is an object address -> details, kept in the    *)
(* order of its keys; details has or lacks "value" and "liquidity".        *)
(***************************************************************************)
Details(a, has_value, has_liquidity, liquidity) ==
    [address |-> a, has_value |-> has_value, value |-> IF has_value THEN Num(0, 3) ELSE Zero,
     has_liquidity |-> has_liquidity, liquidity |-> liquidity]

BirdEyeDetails ==
    {Details(a, v, FALSE, Zero) : a \in Addrs, v \in BOOLEAN} \cup
    {Details(a, v, TRUE, l) : a \in Addrs, v \in BOOLEAN, l \in {Zero, Num(0, 5)}}

DistinctKeys(data) ==
    \A i, j \in 1..Len(data) : data[i].address = data[j].address => i = j

BirdEyeData == {d \in SeqsUpTo(BirdEyeDetails, MaxData) : DistinctKeys(d)}

BirdEyeResponses ==
    {[NoResponse EXCEPT !.status = HTTP_ERROR]} \cup
    {[NoResponse EXCEPT !.status = HTTP_OK, !.data = d] : d \in BirdEyeData}

\* Python truth value of a details dict: {} is false
DetailsTruthy(details) == details.has_value \/ details.has_liquidity

(***************************************************************************)
(* BirdEyeClient.fetch_prices                                              *)
(***************************************************************************)
\* line 60 without its "liquidity" test
DetailsValidValueOnly(details) == details.has_value

\* the condition of the if of line 60
DetailsValid(details) == details.has_value /\ details.has_liquidity

\* lines 57-63: the dict price_details after the first n records of data
RECURSIVE BE_price_details(_, _)
BE_price_details(data, n) ==
    IF n = 0 THEN <<>>
    ELSE LET rest == BE_price_details(data, n - 1)
             details == data[n]
         IN  IF DetailsValid(details)
             THEN (details.address :>
                      PriceInfo(Decimal(details.value), TRUE, Decimal(details.liquidity)))
                  @@ rest
             ELSE rest

\* lines 58-63: the list invalid_token_list after the first n records of data
RECURSIVE BE_invalid_token_list(_, _)
BE_invalid_token_list(data, n) ==
    IF n = 0 THEN <<>>
    ELSE LET rest == BE_invalid_token_list(data, n - 1)
         IN  IF DetailsValid(data[n]) THEN rest ELSE Append(rest, data[n].address)

\* lines 51-54
BE_fetch_prices_call(addrs) ==
    /\ pc = "idle"
    /\ op' = "BirdEye.fetch_prices"
    /\ token_addresses' = addrs
    /\ IF ~ListTruthy(addrs)
       THEN /\ outcome' = NoPositionsError
            /\ pc' = "done"
            /\ calls' = calls
       ELSE /\ calls' = Append(calls, Request("BirdEye", addrs))
            /\ pc' = "http"
            /\ outcome' = outcome
    /\ UNCHANGED <<address, api_response, idx, prices, invalid_token_list>>
    /\ UNCHANGED selVars

\* lines 55-67
BE_fetch_prices_response(resp) ==
    /\ pc = "http"
    /\ op = "BirdEye.fetch_prices"
    /\ api_response' = resp
    /\ pc' = "done"
    /\ IF resp.status = HTTP_OK
       THEN LET data == resp.data
                price_details == BE_price_details(data, Len(data))
                invalid == BE_invalid_token_list(data, Len(data))
            IN  IF ListTruthy(invalid)
                THEN outcome' = InvalidTokens(invalid)
                ELSE outcome' = ReturnPrices(price_details)
       ELSE outcome' = InvalidTokens(<<>>)
    /\ UNCHANGED <<op, token_addresses, address, calls, idx, prices, invalid_token_list>>
    /\ UNCHANGED selVars

(***************************************************************************)
(* BirdEyeClient.fetch_token_overview                                      *)
(***************************************************************************)
\* lines 84-88
BE_fetch_token_overview_call(a) ==
    /\ pc = "idle"
    /\ op' = "BirdEye.fetch_token_overview"
    /\ address' = a
    /\ IF ~is_solana_address(a)
       THEN /\ outcome' = InvalidSolanaAddress(a)
            /\ pc' = "done"
            /\ calls' = calls
       ELSE /\ calls' = Append(calls, Request("BirdEye", <<a>>))
            /\ pc' = "http"
            /\ outcome' = outcome
    /\ UNCHANGED <<token_addresses, api_response, idx, prices, invalid_token_list>>
    /\ UNCHANGED selVars

\* data.get(address, {}): whether data has the key
DataHas(data, a) == \E i \in 1..Len(data) : data[i].address = a

DataGet(data, a) == data[CHOOSE i \in 1..Len(data) : data[i].address = a]

\* not token_data.get("liquidity", None), line 96
BE_liquidity_falsy(token_data) ==
    ~token_data.has_liquidity \/ ~DecimalTruthy(token_data.liquidity)

\* lines 89-102
BE_fetch_token_overview_response(resp) ==
    /\ pc = "http"
    /\ op = "BirdEye.fetch_token_overview"
    /\ api_response' = resp
    /\ pc' = "done"
    /\ IF resp.status = HTTP_OK
       THEN IF ~DataHas(resp.data, address) \/ ~DetailsTruthy(DataGet(resp.data, address))
            THEN outcome' = InvalidTokens(<<address>>)
            ELSE LET token_data == DataGet(resp.data, address)
                 IN  IF BE_liquidity_falsy(token_data)
                     THEN outcome' = NoLiquidity
                     ELSE outcome' = ReturnOverview(
                              Decimal(IF token_data.has_value THEN token_data.value ELSE Zero),
                              Decimal(token_data.liquidity))
       ELSE outcome' = InvalidTokens(<<address>>)
    /\ UNCHANGED <<op, token_addresses, address, calls, idx, prices, invalid_token_list>>
    /\ UNCHANGED selVars

(***************************************************************************)
(* DexScreener responses: a body with or without the key "pairs".          *)
(***************************************************************************)
RespLiquidities ==
    {NoLiquidityKey, LiquidityNoUsd} \cup {LiquidityUsd(n) : n \in {Zero, Num(0, 5)}}

RespEntries ==
    {Pair(b, q, l) : b \in ValidAddrs, q \in {SOL_MINT, USDC_MINT}, l \in RespLiquidities}

DexResponses ==
    {[NoResponse EXCEPT !.status = HTTP_ERROR],
     [NoResponse EXCEPT !.status = HTTP_OK]} \cup
    {[NoResponse EXCEPT !.status = HTTP_OK, !.has_pairs = TRUE, !.pairs = p] :
        p \in SeqsUpTo(RespEntries, MaxRespPairs)}

\* api_response.get("pairs") as a truth value: no key and [] are false
PairsTruthy(resp) == resp.has_pairs /\ ListTruthy(resp.pairs)

(***************************************************************************)
(* DexScreenerClient._validate_token_address, _validate_response           *)
(***************************************************************************)
\* lines 37-41: the exception raised, NoOutcome when the address passes
validate_token_address(a) ==
    IF ~StrTruthy(a) THEN NoPositionsError
    ELSE IF ~is_solana_address(a) THEN InvalidSolanaAddress(a)
    ELSE NoOutcome

\* lines 76-77: the exception raised, NoOutcome when the response passes
validate_response(resp) ==
    IF resp.status # HTTP_OK THEN InvalidTokens(<<>>) ELSE NoOutcome

\* lines 145-146 and 173-174: <<is not None, Decimal>> of the selected entry;
\* final_data is a position of pairs, 0 for {}
FinalLiquidity(pairs, final_data) ==
    IF final_data = 0 THEN <<FALSE, Zero>>
    ELSE LET liq == pairs[final_data].liquidity
         IN  IF liq.key
             THEN <<TRUE, Decimal(IF liq.usd_key THEN liq.usd ELSE Zero)>>
             ELSE <<FALSE, Zero>>

\* lines 148 and 178: Decimal(final_data.get("priceUsd", 0))
FinalPrice(pairs, final_data) ==
    IF final_data = 0 THEN Decimal(Zero) ELSE Decimal(pairs[final_data].priceUsd)

(***************************************************************************)
(* DexScreenerClient.fetch_prices_dex                                      *)
(***************************************************************************)
\* _call_api up to requests.get for the address at position i (lines 94-96)
DexIssue(addrs, i) ==
    LET raised == validate_token_address(addrs[i])
    IN  IF raised # NoOutcome
        THEN /\ outcome' = raised
             /\ pc' = "done"
             /\ calls' = calls
        ELSE /\ calls' = Append(calls, Request("DexScreener", <<addrs[i]>>))
             /\ pc' = "http"
             /\ outcome' = outcome

\* lines 136-142, up to the first request
DEX_fetch_prices_dex_call(addrs) ==
    /\ pc = "idle"
    /\ op' = "DexScreener.fetch_prices_dex"
    /\ token_addresses' = addrs
    /\ IF ~ListTruthy(addrs)
       THEN /\ outcome' = NoPositionsError
            /\ pc' = "done"
            /\ calls' = calls
            /\ idx' = idx
       ELSE /\ idx' = 1
            /\ DexIssue(addrs, 1)
    /\ UNCHANGED <<address, api_response, prices, invalid_token_list>>
    /\ UNCHANGED selVars

\* lines 97-98 and 143-154: the rest of the iteration on a response, then
\* the next iteration up to its request, or the end of the loop
DEX_fetch_prices_dex_response(resp) ==
    /\ pc = "http"
    /\ op = "DexScreener.fetch_prices_dex"
    /\ api_response' = resp
    /\ IF validate_response(resp) # NoOutcome
       THEN /\ outcome' = validate_response(resp)
            /\ pc' = "done"
            /\ UNCHANGED <<calls, idx, prices, invalid_token_list>>
       ELSE LET a == token_addresses[idx]
                final_data == find_largest_pool_with_sol(resp.pairs, a)
                liquidity == FinalLiquidity(resp.pairs, final_data)
                price == FinalPrice(resp.pairs, final_data)
                new_prices == IF PairsTruthy(resp)
                              THEN (a :> PriceInfo(price, liquidity[1], liquidity[2])) @@ prices
                              ELSE prices
                new_invalid == IF PairsTruthy(resp)
                               THEN invalid_token_list
                               ELSE Append(invalid_token_list, a)
            IN  /\ prices' = new_prices
                /\ invalid_token_list' = new_invalid
                /\ IF idx < Len(token_addresses)
                   THEN /\ idx' = idx + 1
                        /\ DexIssue(token_addresses, idx + 1)
                   ELSE /\ idx' = idx
                        /\ pc' = "done"
                        /\ calls' = calls
                        /\ IF ListTruthy(new_invalid)
                           THEN outcome' = InvalidTokens(new_invalid)
                           ELSE outcome' = ReturnPrices(new_prices)
    /\ UNCHANGED <<op, token_addresses, address>>
    /\ UNCHANGED selVars

(***************************************************************************)
(* DexScreenerClient.fetch_token_overview                                  *)
(***************************************************************************)
\* lines 167-170, up to the request of _call_api
DEX_fetch_token_overview_call(a) ==
    /\ pc = "idle"
    /\ op' = "DexScreener.fetch_token_overview"
    /\ address' = a
    /\ IF ~is_solana_address(a)
       THEN /\ outcome' = InvalidSolanaAddress(a)
            /\ pc' = "done"
            /\ calls' = calls
       ELSE DexIssue(<<a>>, 1)
    /\ UNCHANGED <<token_addresses, api_response, idx, prices, invalid_token_list>>
    /\ UNCHANGED selVars

\* line 175 as "if liquidity is None"
LiquidityFalsyNoneOnly(liquidity) == ~liquidity[1]

\* not liquidity, line 175: None and Decimal(0) are false
LiquidityFalsy(liquidity) == ~liquidity[1] \/ ~DecimalTruthy(liquidity[2])

\* line 185 raising InvalidTokens([address]) as the BirdEye overview does
OverviewNoPairsAsInvalidTokens(a) == InvalidTokens(<<a>>)

\* line 185
OverviewNoPairs(a) == TransactionNotFoundError

\* lines 97-98 and 171-185
DEX_fetch_token_overview_response(resp) ==
    /\ pc = "http"
    /\ op = "DexScreener.fetch_token_overview"
    /\ api_response' = resp
    /\ pc' = "done"
    /\ IF validate_response(resp) # NoOutcome
       THEN outcome' = validate_response(resp)
       ELSE IF PairsTruthy(resp)
            THEN LET final_data == find_largest_pool_with_sol(resp.pairs, address)
                     liquidity == FinalLiquidity(resp.pairs, final_data)
                 IN  IF LiquidityFalsy(liquidity)
                     THEN outcome' = NoLiquidity
                     ELSE outcome' = ReturnOverview(FinalPrice(resp.pairs, final_data),
                                                    liquidity[2])
            ELSE outcome' = OverviewNoPairs(address)
    /\ UNCHANGED <<op, token_addresses, address, calls, idx, prices, invalid_token_list>>
    /\ UNCHANGED selVars

(***************************************************************************)
(* Spec: one public operation of one client, on bounded inputs.            *)
(***************************************************************************)
\* the addresses a caller may pass: valid, invalid and the empty string
CallerAddrs == Addrs \cup {EmptyAddress}

AddressLists == SeqsUpTo(CallerAddrs, MaxAddrs)

SelIdle ==
    /\ sel_pairs = <<>>
    /\ sel_address = ""
    /\ sel_pc = "idle"
    /\ max_entry = 0

ClientIdle ==
    /\ op = "none"
    /\ token_addresses = <<>>
    /\ address = ""
    /\ pc = "idle"
    /\ calls = <<>>
    /\ api_response = NoResponse
    /\ idx = 0
    /\ prices = <<>>
    /\ invalid_token_list = <<>>
    /\ outcome = NoOutcome

Init == ClientIdle /\ SelIdle

Next ==
    \/ pc = "idle" /\ \E addrs \in AddressLists : BE_fetch_prices_call(addrs)
    \/ pc = "http" /\ op = "BirdEye.fetch_prices" /\
          \E resp \in BirdEyeResponses : BE_fetch_prices_response(resp)
    \/ pc = "idle" /\ \E a \in CallerAddrs : BE_fetch_token_overview_call(a)
    \/ pc = "http" /\ op = "BirdEye.fetch_token_overview" /\
          \E resp \in BirdEyeResponses : BE_fetch_token_overview_response(resp)
    \/ pc = "idle" /\ \E addrs \in AddressLists : DEX_fetch_prices_dex_call(addrs)
    \/ pc = "http" /\ op = "DexScreener.fetch_prices_dex" /\
          \E resp \in DexResponses : DEX_fetch_prices_dex_response(resp)
    \/ pc = "idle" /\ \E a \in CallerAddrs : DEX_fetch_token_overview_call(a)
    \/ pc = "http" /\ op = "DexScreener.fetch_token_overview" /\
          \E resp \in DexResponses : DEX_fetch_token_overview_response(resp)

Spec == Init /\ [][Next]_vars

\* the operations that issue one request: BirdEye's two fetches and the
\* DexScreener overview
NextOneRequest ==
    \/ pc = "idle" /\ \E addrs \in AddressLists : BE_fetch_prices_call(addrs)
    \/ pc = "http" /\ op = "BirdEye.fetch_prices" /\
          \E resp \in BirdEyeResponses : BE_fetch_prices_response(resp)
    \/ pc = "idle" /\ \E a \in CallerAddrs : BE_fetch_token_overview_call(a)
    \/ pc = "http" /\ op = "BirdEye.fetch_token_overview" /\
          \E resp \in BirdEyeResponses : BE_fetch_token_overview_response(resp)
    \/ pc = "idle" /\ \E a \in CallerAddrs : DEX_fetch_token_overview_call(a)
    \/ pc = "http" /\ op = "DexScreener.fetch_token_overview" /\
          \E resp \in DexResponses : DEX_fetch_token_overview_response(resp)

SpecOneRequest == Init /\ [][NextOneRequest]_vars

(***************************************************************************)
(* SpecSel: the selector on every list of at most MaxPairs pair records.   *)
(***************************************************************************)
SelLiquidities ==
    {NoLiquidityKey, LiquidityNoUsd} \cup
    {LiquidityUsd(n) : n \in {Zero, Num(0, 5), Num(1, 0), Num(1, 1)}}

SelEntries ==
    {Pair(b, q, l) : b \in ValidAddrs, q \in {SOL_MINT, USDC_MINT}, l \in SelLiquidities}

InitSel ==
    /\ ClientIdle
    /\ sel_pairs \in SeqsUpTo(SelEntries, MaxPairs)
    /\ sel_address = "T1"
    /\ sel_pc = "input"
    /\ max_entry = 0

Select ==
    /\ sel_pc = "input"
    /\ max_entry' = find_largest_pool_with_sol(sel_pairs, sel_address)
    /\ sel_pc' = "returned"
    /\ UNCHANGED <<sel_pairs, sel_address>>
    /\ UNCHANGED clientVars

NextSel == Select

SpecSel == InitSel /\ [][NextSel]_vars

(***************************************************************************)
(* Properties.                                                             *)
(***************************************************************************)
Range(seq) == {seq[i] : i \in 1..Len(seq)}

PriceOps == {"BirdEye.fetch_prices", "DexScreener.fetch_prices_dex"}

OverviewOps == {"BirdEye.fetch_token_overview", "DexScreener.fetch_token_overview"}

\* the addresses handed to the operation in progress
InputAddrs ==
    IF op \in PriceOps THEN Range(token_addresses)
    ELSE IF op \in OverviewOps THEN {address}
    ELSE {}

\* the non-empty input addresses that fail the validity predicate
InvalidInputs == {a \in InputAddrs : a # EmptyAddress /\ ~is_solana_address(a)}

\* C1: in every fetch operation whose input holds an address that fails the
\* validity predicate, no HTTP request is ever issued and the operation ends
\* with InvalidSolanaAddress carrying such an address.
C1_InvalidAddressGate ==
    (InvalidInputs # {} /\ EmptyAddress \notin InputAddrs) =>
        /\ calls = <<>>
        /\ pc = "done" =>
              outcome.kind = "InvalidSolanaAddress" /\ outcome.address \in InvalidInputs

\* C2: a price fetch that returns, returns a mapping whose keys are exactly
\* the requested addresses.
C2_PriceKeysAreRequested ==
    (/\ op \in PriceOps
     /\ pc = "done"
     /\ \A a \in Range(token_addresses) : is_solana_address(a)
     /\ outcome.kind = "prices") =>
        DOMAIN outcome.prices = Range(token_addresses)

\* the addresses of the records of a BirdEye response that lack "value" or
\* "liquidity"
LackingRecords(data) ==
    {data[i].address : i \in {j \in 1..Len(data) :
                                ~data[j].has_value \/ ~data[j].has_liquidity}}

C4_NeverFailsFast ==
    (/\ op = "DexScreener.fetch_prices_dex"
     /\ pc = "done"
     /\ token_addresses # <<>>
     /\ \A a \in Range(token_addresses) : is_solana_address(a)) =>
        /\ calls = [i \in 1..Len(token_addresses) |->
                       Request("DexScreener", <<token_addresses[i]>>)]
        /\ outcome.kind = "InvalidTokens" =>
              outcome.tokens # <<>> /\ Range(outcome.tokens) \subseteq Range(token_addresses)

\* C5: an empty address list handed to a price fetch, or an empty address
\* handed to an overview fetch, ends with NoPositionsError and no request.
C5_EmptyInput ==
    (/\ pc = "done"
     /\ \/ op \in PriceOps /\ token_addresses = <<>>
        \/ op \in OverviewOps /\ address = EmptyAddress) =>
        outcome.kind = "NoPositionsError" /\ calls = <<>>

\* the positions of the records with base = addr and quote = native asset
Candidates(token_pairs, addr) ==
    {k \in 1..Len(token_pairs) :
        token_pairs[k].baseToken = addr /\ token_pairs[k].quoteToken = SOL_MINT}

\* liquidity.usd of the record at position k, absent counted as 0
UsdAt(token_pairs, k) ==
    IF token_pairs[k].liquidity.key /\ token_pairs[k].liquidity.usd_key
    THEN token_pairs[k].liquidity.usd
    ELSE Zero

\* C6 as stated: the selector returns a record with base = token and quote =
\* native asset whose liquidity.usd is the maximum over all such records, and
\* returns {} exactly when there is no such record.
C6_ReturnsMaxLiquidity ==
    sel_pc = "returned" =>
        LET M == Candidates(sel_pairs, sel_address)
        IN  /\ max_entry = 0 <=> M = {}
            /\ max_entry # 0 =>
                  /\ max_entry \in M
                  /\ \A k \in M : ~NumGreater(UsdAt(sel_pairs, k), UsdAt(sel_pairs, max_entry))

\* C6 amended: the selector returns a record with base = token and quote =
\* native asset whose liquidity.usd, converted to a float, is the maximum of
\* the converted values over all such records, and returns {} exactly when
\* there is no such record.
C6_ReturnsMaxFloatLiquidity ==
    sel_pc = "returned" =>
        LET M == Candidates(sel_pairs, sel_address)
        IN  /\ max_entry = 0 <=> M = {}
            /\ max_entry # 0 =>
                  /\ max_entry \in M
                  /\ \A k \in M : ~NumGreater(float(UsdAt(sel_pairs, k)),
                                              float(UsdAt(sel_pairs, max_entry)))

\* the selector has returned the smaller of two matching records while a
\* record quoted in another asset carries more liquidity than both
C6_Witness ==
    /\ sel_pc = "returned"
    /\ Cardinality(Candidates(sel_pairs, sel_address)) = 2
    /\ max_entry # 0
    /\ \E k \in Candidates(sel_pairs, sel_address) :
          NumGreater(UsdAt(sel_pairs, max_entry), UsdAt(sel_pairs, k))
    /\ \E k \in 1..Len(sel_pairs) :
          /\ sel_pairs[k].baseToken = sel_address
          /\ sel_pairs[k].quoteToken # SOL_MINT
          /\ NumGreater(UsdAt(sel_pairs, k), UsdAt(sel_pairs, max_entry))

\* the least element of a non-empty set of positions
First(S) == CHOOSE k \in S : \A j \in S : k <= j

\* whether the iteration on position n replaced the running choice
Replaced(token_pairs, addr, n) ==
    /\ SelLoop(token_pairs, addr, n - 1).max_entry # 0
    /\ SelLoop(token_pairs, addr, n).max_entry # SelLoop(token_pairs, addr, n - 1).max_entry

\* C7 as stated: when several matching records share the maximum
\* liquidity.usd the selector returns the first of them, and a later record
\* replaces the running choice only if its liquidity is strictly greater.
C7_FirstOfTiedMaxima ==
    sel_pc = "returned" =>
        LET M == Candidates(sel_pairs, sel_address)
            Top == {k \in M : \A j \in M :
                       ~NumGreater(UsdAt(sel_pairs, j), UsdAt(sel_pairs, k))}
        IN  /\ Cardinality(Top) >= 2 => max_entry = First(Top)
            /\ \A n \in 1..Len(sel_pairs) :
                  Replaced(sel_pairs, sel_address, n) =>
                      NumGreater(UsdAt(sel_pairs, n),
                                 UsdAt(sel_pairs, SelLoop(sel_pairs, sel_address, n - 1).max_entry))

\* C7 amended: when several matching records share the maximum of
\* liquidity.usd converted to a float the selector returns the first of them,
\* and a later record replaces the running choice only if its converted
\* liquidity, and so its liquidity, is strictly greater.
C7_FirstOfTiedFloatMaxima ==
    sel_pc = "returned" =>
        LET M == Candidates(sel_pairs, sel_address)
            Top == {k \in M : \A j \in M :
                       ~NumGreater(float(UsdAt(sel_pairs, j)), float(UsdAt(sel_pairs, k)))}
        IN  /\ Cardinality(Top) >= 2 => max_entry = First(Top)
            /\ \A n \in 1..Len(sel_pairs) :
                  Replaced(sel_pairs, sel_address, n) =>
                      LET before == SelLoop(sel_pairs, sel_address, n - 1).max_entry
                      IN  /\ NumGreater(float(UsdAt(sel_pairs, n)),
                                        float(UsdAt(sel_pairs, before)))
                          /\ NumGreater(UsdAt(sel_pairs, n), UsdAt(sel_pairs, before))

\* two matching records tie at the maximum behind a smaller matching record,
\* and the selector has returned the first of the two
C7_Witness ==
    /\ sel_pc = "returned"
    /\ Cardinality(Candidates(sel_pairs, sel_address)) = 3
    /\ max_entry = 2
    /\ UsdAt(sel_pairs, 2) = UsdAt(sel_pairs, 3)
    /\ NumGreater(UsdAt(sel_pairs, 2), UsdAt(sel_pairs, 1))

\* liquidity of a BirdEye record or of a DexScreener pair is zero or absent
BirdEyeLiquidityZeroOrAbsent(details) ==
    ~details.has_liquidity \/ details.liquidity = Zero

PairLiquidityZeroOrAbsent(entry) ==
    ~entry.liquidity.key \/ ~entry.liquidity.usd_key \/ entry.liquidity.usd = Zero

C9_NoPairsIsTransactionNotFound ==
    (/\ op = "DexScreener.fetch_token_overview"
     /\ pc = "done"
     /\ is_solana_address(address)
     /\ api_response.status = HTTP_OK
     /\ ~api_response.has_pairs \/ api_response.pairs = <<>>) =>
        outcome.kind = "TransactionNotFoundError"

\* the DexScreener overview has been answered 200 with "pairs": []
C9_Witness ==
    /\ op = "DexScreener.fetch_token_overview"
    /\ pc = "done"
    /\ api_response.status = HTTP_OK
    /\ api_response.has_pairs
    /\ api_response.pairs = <<>>
    /\ outcome.kind = "TransactionNotFoundError"

\* a 200 response whose pairs array is non-empty and holds no record with
\* base = a and quote = native asset
NoUsablePair(resp, a) ==
    /\ resp.status = HTTP_OK
    /\ resp.has_pairs
    /\ resp.pairs # <<>>
    /\ Candidates(resp.pairs, a) = {}

\* C10: a non-empty pairs array without a usable pair is treated like an
\* empty one: fetch_prices_dex rejects the address (InvalidTokens holding it,
\* no PriceInfo for it) and fetch_token_overview raises what it raises on an
\* empty pairs array, TransactionNotFoundError.
C10_NoUsablePairIsNoPair ==
    /\ (/\ op = "DexScreener.fetch_prices_dex"
        /\ pc = "done"
        /\ \A a \in Range(token_addresses) : is_solana_address(a)
        /\ calls # <<>>
        /\ NoUsablePair(api_response, calls[Len(calls)].list_address[1])) =>
          /\ outcome.kind = "InvalidTokens"
          /\ calls[Len(calls)].list_address[1] \in Range(outcome.tokens)
          /\ calls[Len(calls)].list_address[1] \notin DOMAIN prices
    /\ (/\ op = "DexScreener.fetch_token_overview"
        /\ pc = "done"
        /\ NoUsablePair(api_response, address)) =>
          outcome.kind = "TransactionNotFoundError"

====
